---- MODULE Spec2Model ----
(***************************************************************************)
(* update-pre-commit (src/src/pkg_95120/run.py): the revision              *)
(* reconciliation run.  main authenticates, reads the manifest lazily,     *)
(* starts one lookup thread per manifest entry, joins them, and then       *)
(* optionally rewrites the manifest and publishes a pull request.          *)
(*                                                                         *)
(* Strings are sequences of one-character strings, so that Python's        *)
(* substring test (in), rsplit, join and replace are computed as the code  *)
(* computes them.  Manifest scalars are strings, as the pre-commit schema  *)
(* requires of repo and rev.                                               *)
(***************************************************************************)
EXTENDS Integers, Sequences, FiniteSets, TLC

\* ------------------------------------------------------------ bounds
\* The largest number of items of the manifest's repos list.
MaxEntries == 2

\* The largest variance list handed to update_pre_commit_config on its own.
MaxVariances == 2

\* ------------------------------------------------------------ strings
S_slash == "/"
S_dotgit == <<".","g","i","t">>
S_https_x_o_n == <<"h","t","t","p","s",":","/","/","x","/","o","/","n">>
S_https_x_o_nn == <<"h","t","t","p","s",":","/","/","x","/","o","/","n","n">>
S_local == <<"l","o","c","a","l">>
S_v1 == <<"v","1">>
S_v2 == <<"v","2">>
S_v1_9_0 == <<"v","1",".","9",".","0">>
S_v2_0_0_rc1 == <<"v","2",".","0",".","0","-","r","c","1">>

\* run.py:29.  The whole parenthesised expression is inside the quotes: the
\* constant is this one 64-character string, not a set of markers.
TAG_NAME == <<"(","'","a","l","p","h","a","'"," ","a","n","d"," ","'","b","e","t","a","'"," ","a","n","d"," ","'","p","r","e","r","e","l","e","a","s","e","'"," ","a","n","d"," ","'","p","r","e","-","r","e","l","e","a","s","e","'"," ","a","n","d"," ","'","r","c","'",")">>

\* Python's  a in b  on strings: a occurs in b as a contiguous substring.
str_in(a, b) ==
    \E i \in 0..(Len(b) - Len(a)) : SubSeq(b, i + 1, i + Len(a)) = a

\* The largest index at which the character sep occurs in s, 0 if none.
rfind(s, sep) ==
    LET hits == {i \in 1..Len(s) : s[i] = sep}
    IN  IF hits = {} THEN 0 ELSE CHOOSE i \in hits : \A j \in hits : j <= i

\* Python's  s.rsplit(sep, maxsplit)  for a one-character sep.
RECURSIVE rsplit(_, _, _)
rsplit(s, sep, maxsplit) ==
    LET k == rfind(s, sep)
    IN  IF maxsplit = 0 \/ k = 0
        THEN <<s>>
        ELSE rsplit(SubSeq(s, 1, k - 1), sep, maxsplit - 1)
                 \o <<SubSeq(s, k + 1, Len(s))>>

\* Python's  parts[-2:].
last_two(parts) ==
    IF Len(parts) <= 2 THEN parts ELSE SubSeq(parts, Len(parts) - 1, Len(parts))

\* Python's  sep.join(parts)  for a one-character sep.
RECURSIVE join(_, _)
join(sep, parts) ==
    IF Len(parts) = 0 THEN <<>>
    ELSE IF Len(parts) = 1 THEN parts[1]
    ELSE parts[1] \o <<sep>> \o join(sep, Tail(parts))

\* Python's  s.replace(old, new): every non-overlapping occurrence, left to right.
RECURSIVE replace(_, _, _)
replace(s, old, new) ==
    IF Len(s) < Len(old) THEN s
    ELSE IF SubSeq(s, 1, Len(old)) = old
         THEN new \o replace(SubSeq(s, Len(old) + 1, Len(s)), old, new)
         ELSE <<s[1]>> \o replace(Tail(s), old, new)

\* run.py:65.  The identity of a reference string.
owner_repo_of(repo) ==
    replace(join(S_slash, last_two(rsplit(repo, S_slash, 2))), S_dotgit, <<>>)

\* run.py:65-66.  One item of the generator get_owner_repo returns.
gen_item(r) == [owner_repo |-> owner_repo_of(r.repo), current_rev |-> r.rev]

\* run.py:65-66.  r['repo'] or r['rev'] raises KeyError on an item lacking it.
item_has_keys(r) == "repo" \in DOMAIN r /\ "rev" \in DOMAIN r

\* ------------------------------------------------------------ inputs
\* Items a manifest's repos list may hold: two references whose identities
\* are o/n and o/nn, at several declared revisions, and a  repo: local  item,
\* which has no rev key.
Items ==
    { [repo |-> S_https_x_o_n, rev |-> S_v1],
      [repo |-> S_https_x_o_n, rev |-> S_v2],
      [repo |-> S_https_x_o_nn, rev |-> S_v1_9_0],
      [repo |-> S_local] }

RECURSIVE SeqsUpTo(_, _)
SeqsUpTo(S, n) ==
    IF n = 0 THEN {<<>>}
    ELSE LET shorter == SeqsUpTo(S, n - 1)
         IN  shorter \cup {Append(q, x) : q \in {r \in shorter : Len(r) = n - 1}, x \in S}

\* The repos lists of the manifests.
Manifests == {m \in SeqsUpTo(Items, MaxEntries) : Len(m) >= 1}

\* What the forge holds for one identity: whether the repository exists,
\* whether it has a latest release (and its tag_name), and its tags in forge
\* order.
Answers ==
    { [exists |-> FALSE, has_release |-> FALSE, release |-> <<>>, tags |-> <<>>],
      [exists |-> TRUE, has_release |-> TRUE, release |-> S_v2, tags |-> <<>>],
      [exists |-> TRUE, has_release |-> FALSE, release |-> <<>>,
       tags |-> <<S_v2_0_0_rc1, S_v1_9_0>>],
      [exists |-> TRUE, has_release |-> FALSE, release |-> <<>>,
       tags |-> <<S_v2_0_0_rc1>>],
      [exists |-> TRUE, has_release |-> FALSE, release |-> <<>>, tags |-> <<>>] }

Identities == {owner_repo_of(r.repo) : r \in {x \in Items : item_has_keys(x)}}

\* The identities of a repos list's well-keyed items.
ids_of(repos) ==
    {owner_repo_of(repos[i].repo) : i \in {j \in 1..Len(repos) : item_has_keys(repos[j])}}

NoAnswer == [exists |-> FALSE, has_release |-> FALSE, release |-> <<>>, tags |-> <<>>]

\* The forges that differ only on the identities a manifest names.
Forges(repos) ==
    {f \in [Identities -> Answers] : \A o \in Identities \ ids_of(repos) : f[o] = NoAnswer}

\* A manifest file: present or not, parseable YAML or not, with or without
\* the top-level repos key; layout tells the original text from yaml.dump's.
ManifestFile(repos) ==
    [exists |-> TRUE, parses |-> TRUE, has_repos |-> TRUE, repos |-> repos,
     layout |-> "original"]

BadFiles ==
    { [exists |-> FALSE, parses |-> FALSE, has_repos |-> FALSE, repos |-> <<>>,
       layout |-> "original"],
      [exists |-> TRUE, parses |-> FALSE, has_repos |-> FALSE, repos |-> <<>>,
       layout |-> "original"],
      [exists |-> TRUE, parses |-> TRUE, has_repos |-> FALSE, repos |-> <<>>,
       layout |-> "original"] }

DefaultRepos == <<[repo |-> S_https_x_o_n, rev |-> S_v1]>>

\* ------------------------------------------------------------ state
VARIABLES
    gh_token,       \* os.environ['GH_TOKEN']: "valid", "invalid" or "missing"
    coverage_run,   \* 'COVERAGE_RUN' in os.environ
    dry_run,        \* --dry-run
    open_pr,        \* --open-pr
    manifest,       \* the manifest file as the run found it
    file,           \* the manifest file now
    forge,          \* identity -> what the forge holds for it
    pc,             \* main's position
    err,            \* the exception main's except clause caught, "none" if none
    exit_code,      \* the process exit code, -1 while main runs
    gen_next,       \* index of the item the generator yields next
    join_next,      \* index into threads of the thread joined next
    th,             \* the lookup threads, by manifest position
    variance_list,  \* the shared list of variances
    branch,         \* checkout_new_branch created and checked out a branch
    pushed,         \* push_commit pushed the commit
    pr,             \* "none", "open" or "closed"
    pr_body,        \* the body of the pull request created
    writes          \* number of times the manifest file was written

vars == <<gh_token, coverage_run, dry_run, open_pr, manifest, file, forge, pc, err,
          exit_code, gen_next, join_next, th, variance_list, branch, pushed, pr,
          pr_body, writes>>

inputs == <<gh_token, coverage_run, dry_run, open_pr, manifest, forge>>
publisher == <<branch, pushed, pr, pr_body>>

NotStarted ==
    [pc |-> "unstarted", owner_repo |-> <<>>, current_rev |-> <<>>, new_rev |-> <<>>,
     exc |-> "none"]

Terminated == {"done", "dead"}

\* The flag combinations of a run.
Flags ==
    { [dry_run |-> TRUE, open_pr |-> FALSE, coverage_run |-> FALSE],
      [dry_run |-> TRUE, open_pr |-> TRUE, coverage_run |-> FALSE],
      [dry_run |-> FALSE, open_pr |-> FALSE, coverage_run |-> FALSE],
      [dry_run |-> FALSE, open_pr |-> TRUE, coverage_run |-> FALSE],
      [dry_run |-> FALSE, open_pr |-> TRUE, coverage_run |-> TRUE] }

\* run.py:250-251 and the process environment main starts in.
InitRun(token, fl, m, f) ==
    /\ gh_token = token
    /\ coverage_run = fl.coverage_run
    /\ dry_run = fl.dry_run
    /\ open_pr = fl.open_pr
    /\ manifest = m
    /\ file = m
    /\ forge = f
    /\ pc = "get_auth"
    /\ err = "none"
    /\ exit_code = -1
    /\ gen_next = 1
    /\ join_next = 1
    /\ th = [i \in 1..Len(m.repos) |-> NotStarted]
    /\ variance_list = <<>>
    /\ branch = FALSE
    /\ pushed = FALSE
    /\ pr = "none"
    /\ pr_body = <<>>
    /\ writes = 0

Init ==
    \/ \E fl \in Flags, repos \in Manifests :
           \E f \in Forges(repos) : InitRun("valid", fl, ManifestFile(repos), f)
    \/ \E fl \in Flags, token \in {"invalid", "missing"} :
           \E f \in Forges(DefaultRepos) :
               InitRun(token, fl, ManifestFile(DefaultRepos), f)
    \/ \E fl \in Flags, m \in BadFiles :
           InitRun("valid", fl, m, [o \in Identities |-> NoAnswer])

\* ------------------------------------------------------------ pure parts
\* run.py:40-49.  What get_auth does with the token of the environment.
auth_result(token) ==
    IF token = "missing" THEN "KeyError"
    ELSE IF token = "invalid" THEN "PermissionError"
    ELSE "ok"

\* A reader that does not look for the repos key.
read_result_ignores_missing_key(f) ==
    IF ~f.exists THEN "FileNotFoundError"
    ELSE IF ~f.parses THEN "YAMLError"
    ELSE "ok"

\* run.py:62-70.  What get_owner_repo does with the file: open, safe_load,
\* data['repos'] (the generator's outermost iterable is evaluated at once).
read_result(f) ==
    IF ~f.exists THEN "FileNotFoundError"
    ELSE IF ~f.parses THEN "YAMLError"
    ELSE IF ~f.has_repos THEN "KeyError"
    ELSE "ok"

\* A comparison that always reports a difference.
rev_differs_always(current_rev, latest) == TRUE

\* run.py:108 and 115.  not current_rev == latest
rev_differs(current_rev, latest) == ~(current_rev = latest)

\* run.py:114.  The filter of the tag generator.
tag_passes(name) == ~str_in(TAG_NAME, name)

\* run.py:114.  next(x for x in repo.get_tags() if TAG_NAME not in x.name):
\* the first tag in forge order that passes, StopIteration if none does.
RECURSIVE first_tag(_)
first_tag(tags) ==
    IF Len(tags) = 0 THEN [found |-> FALSE, name |-> <<>>]
    ELSE IF tag_passes(Head(tags)) THEN [found |-> TRUE, name |-> Head(tags)]
    ELSE first_tag(Tail(tags))

\* A racing append that stores into the slot it read before another append.
add_variance_lost_update(owner_repo, current_rev, new_rev, vl) ==
    LET v == [owner_repo |-> owner_repo, current_rev |-> current_rev,
              new_rev |-> new_rev]
    IN  IF Len(vl) = 0 THEN <<v>> ELSE [vl EXCEPT ![Len(vl)] = v]

\* run.py:134-136.  list.append is one step of the interpreter: it runs
\* without releasing the interpreter lock, so no other thread sees or takes
\* part in a half-done append.
add_variance_to_dict(owner_repo, current_rev, new_rev, vl) ==
    Append(vl, [owner_repo |-> owner_repo, current_rev |-> current_rev,
                new_rev |-> new_rev])

\* A join that does not wait.
join_no_wait(t) == TRUE

\* run.py:89.  thread.join() returns once the thread has terminated.
join_ready(t) == t.pc \in Terminated

\* A guard that forgets the dry-run flag.
should_update_ignores_dry_run(vl, dry) == Len(vl) > 0

\* run.py:261.
should_update(vl, dry) == Len(vl) > 0 /\ ~dry

\* run.py:153.  Both tests are substring tests.
variance_matches(v, entry) ==
    str_in(v.owner_repo, entry.repo) /\ str_in(v.current_rev, entry.rev)

\* An update that assigns to the reference key in place of the revision key.
RECURSIVE update_entry_wrong_key(_, _)
update_entry_wrong_key(entry, vl) ==
    IF Len(vl) = 0 THEN entry
    ELSE update_entry_wrong_key(IF str_in(Head(vl).owner_repo, entry.repo)
                                   /\ str_in(Head(vl).current_rev, entry.rev)
                                THEN [entry EXCEPT !.repo = Head(vl).new_rev]
                                ELSE entry,
                                Tail(vl))

\* run.py:152-154 for one index: the variances in list order, each tested
\* against the entry as the earlier ones left it.
RECURSIVE update_entry(_, _)
update_entry(entry, vl) ==
    IF Len(vl) = 0 THEN entry
    ELSE update_entry(IF variance_matches(Head(vl), entry)
                      THEN [entry EXCEPT !.rev = Head(vl).new_rev]
                      ELSE entry,
                      Tail(vl))

\* run.py:151-154.  The outer loop runs over the indices, the inner one over
\* the variances; an index's entry is touched only in its own inner loop.
update_revs(repos, vl) == [i \in 1..Len(repos) |-> update_entry(repos[i], vl)]

\* A writer that loads and updates the document but never dumps it.
update_pre_commit_config_not_dumped(f, vl) == f

\* run.py:148-157.  The file after update_pre_commit_config.
update_pre_commit_config(f, vl) ==
    [f EXCEPT !.repos = update_revs(f.repos, vl), !.layout = "dumped"]

\* ------------------------------------------------------------ lookup threads
N == Len(manifest.repos)

Finish(i, how, exc) ==
    th' = [th EXCEPT ![i].pc = how, ![i].exc = exc]

\* A lookup that calls gh.get_repo again after a 404.
on_repo_not_found_retry == [pc |-> "get_repo", exc |-> "retrying"]

\* A lookup whose UnknownObjectException is not caught.
on_repo_not_found_uncaught == [pc |-> "dead", exc |-> "UnknownObjectException"]

\* run.py:119-121.  The outer except clause: the 404 of gh.get_repo is
\* printed and get_rev_variances returns.
on_repo_not_found == [pc |-> "done", exc |-> "none"]

\* run.py:104.  gh.get_repo(owner_repo)
get_repo(i) ==
    /\ th[i].pc = "get_repo"
    /\ \/ Finish(i, "dead", "GithubException")
       \/ /\ ~forge[th[i].owner_repo].exists
          /\ Finish(i, on_repo_not_found.pc, on_repo_not_found.exc)
       \/ /\ forge[th[i].owner_repo].exists
          /\ th' = [th EXCEPT ![i].pc = "get_latest_release"]
    /\ UNCHANGED <<inputs, file, pc, err, exit_code, gen_next, join_next,
                   variance_list, publisher, writes>>

\* run.py:106-112.  repo.get_latest_release() and the comparison.
get_latest_release(i) ==
    LET a == forge[th[i].owner_repo]
    IN  /\ th[i].pc = "get_latest_release"
        /\ \/ Finish(i, "dead", "GithubException")
           \/ /\ a.has_release
              /\ rev_differs(th[i].current_rev, a.release)
              /\ th' = [th EXCEPT ![i].pc = "add_variance", ![i].new_rev = a.release]
           \/ /\ a.has_release
              /\ ~rev_differs(th[i].current_rev, a.release)
              /\ Finish(i, "done", "none")
           \/ /\ ~a.has_release
              /\ th' = [th EXCEPT ![i].pc = "get_tags"]
        /\ UNCHANGED <<inputs, file, pc, err, exit_code, gen_next, join_next,
                       variance_list, publisher, writes>>

\* run.py:113-117.  repo.get_tags(), next(...) and the comparison.  A
\* StopIteration is no UnknownObjectException: it leaves get_rev_variances.
get_tags(i) ==
    LET t == first_tag(forge[th[i].owner_repo].tags)
    IN  /\ th[i].pc = "get_tags"
        /\ \/ Finish(i, "dead", "GithubException")
           \/ /\ ~t.found
              /\ Finish(i, "dead", "StopIteration")
           \/ /\ t.found
              /\ rev_differs(th[i].current_rev, t.name)
              /\ th' = [th EXCEPT ![i].pc = "add_variance", ![i].new_rev = t.name]
           \/ /\ t.found
              /\ ~rev_differs(th[i].current_rev, t.name)
              /\ Finish(i, "done", "none")
        /\ UNCHANGED <<inputs, file, pc, err, exit_code, gen_next, join_next,
                       variance_list, publisher, writes>>

\* run.py:110 and 117.  The call of add_variance_to_dict.
add_variance(i) ==
    /\ th[i].pc = "add_variance"
    /\ variance_list' = add_variance_to_dict(th[i].owner_repo, th[i].current_rev,
                                             th[i].new_rev, variance_list)
    /\ th' = [th EXCEPT ![i].pc = "done"]
    /\ UNCHANGED <<inputs, file, pc, err, exit_code, gen_next, join_next,
                   publisher, writes>>

\* run.py:92-121.  One step of the lookup thread of entry i.
get_rev_variances(i) ==
    \/ get_repo(i)
    \/ get_latest_release(i)
    \/ get_tags(i)
    \/ add_variance(i)

\* ------------------------------------------------------------ main
\* run.py:279-281.  except Exception as err: sys.exit(1)
Fail(e) ==
    /\ err' = e
    /\ pc' = "exit"
    /\ exit_code' = 1

\* main returns: the process exits with code 0.
Return ==
    /\ pc' = "exit"
    /\ exit_code' = 0
    /\ err' = err

\* run.py:252.
main_get_auth ==
    /\ pc = "get_auth"
    /\ IF auth_result(gh_token) = "ok"
       THEN pc' = "get_owner_repo" /\ UNCHANGED <<err, exit_code>>
       ELSE Fail(auth_result(gh_token))
    /\ UNCHANGED <<inputs, file, gen_next, join_next, th, variance_list, publisher,
                   writes>>

\* run.py:253.
main_get_owner_repo ==
    /\ pc = "get_owner_repo"
    /\ IF read_result(file) = "ok"
       THEN pc' = "start_thread" /\ UNCHANGED <<err, exit_code>>
       ELSE Fail(read_result(file))
    /\ UNCHANGED <<inputs, file, gen_next, join_next, th, variance_list, publisher,
                   writes>>

\* run.py:83-86.  One round of the first loop: the generator yields the next
\* item (or raises KeyError on an item lacking a key) and its thread starts.
start_thread_spawn ==
    /\ pc = "start_thread"
    /\ gen_next <= N
    /\ IF item_has_keys(manifest.repos[gen_next])
       THEN /\ th' = [th EXCEPT ![gen_next] =
                         [NotStarted EXCEPT
                            !.pc = "get_repo",
                            !.owner_repo = gen_item(manifest.repos[gen_next]).owner_repo,
                            !.current_rev = gen_item(manifest.repos[gen_next]).current_rev]]
            /\ gen_next' = gen_next + 1
            /\ UNCHANGED <<pc, err, exit_code>>
       ELSE /\ Fail("KeyError")
            /\ UNCHANGED <<th, gen_next>>
    /\ UNCHANGED <<inputs, file, join_next, variance_list, publisher, writes>>

\* run.py:83.  The generator is exhausted.
start_thread_spawned ==
    /\ pc = "start_thread"
    /\ gen_next = N + 1
    /\ pc' = "join"
    /\ UNCHANGED <<inputs, file, err, exit_code, gen_next, join_next, th,
                   variance_list, publisher, writes>>

\* run.py:88-89.  One round of the second loop.
start_thread_join ==
    /\ pc = "join"
    /\ join_next <= N
    /\ join_ready(th[join_next])
    /\ join_next' = join_next + 1
    /\ UNCHANGED <<inputs, file, pc, err, exit_code, gen_next, th, variance_list,
                   publisher, writes>>

\* run.py:89, 254.  start_thread returns.
start_thread_return ==
    /\ pc = "join"
    /\ join_next = N + 1
    /\ pc' = "decide"
    /\ UNCHANGED <<inputs, file, err, exit_code, gen_next, join_next, th,
                   variance_list, publisher, writes>>

\* run.py:261 and 276-277.
main_decide ==
    /\ pc = "decide"
    /\ IF should_update(variance_list, dry_run)
       THEN pc' = "update" /\ UNCHANGED <<err, exit_code>>
       ELSE Return
    /\ UNCHANGED <<inputs, file, gen_next, join_next, th, variance_list, publisher,
                   writes>>

\* run.py:262-264.
main_update ==
    /\ pc = "update"
    /\ file' = update_pre_commit_config(file, variance_list)
    /\ writes' = writes + 1
    /\ IF open_pr
       THEN pc' = "checkout" /\ UNCHANGED <<err, exit_code>>
       ELSE Return
    /\ UNCHANGED <<inputs, gen_next, join_next, th, variance_list, publisher>>

\* run.py:265, 170-180.  git may refuse (no repository, no origin remote).
main_checkout ==
    /\ pc = "checkout"
    /\ \/ /\ branch' = TRUE
          /\ pc' = "push"
          /\ UNCHANGED <<err, exit_code>>
       \/ /\ Fail("GitError")
          /\ UNCHANGED branch
    /\ UNCHANGED <<inputs, file, gen_next, join_next, th, variance_list, pushed, pr,
                   pr_body, writes>>

\* run.py:266, 192-203.  A failed push raises GitCommandError, which
\* push_commit does not catch.
main_push ==
    /\ pc = "push"
    /\ \/ /\ pushed' = TRUE
          /\ pc' = "create_pr"
          /\ UNCHANGED <<err, exit_code>>
       \/ /\ Fail("GitCommandError")
          /\ UNCHANGED pushed
    /\ UNCHANGED <<inputs, file, gen_next, join_next, th, variance_list, branch, pr,
                   pr_body, writes>>

\* run.py:267-269, 219-239.  create_pr returns the number, or None on a
\* GithubException.
main_create_pr ==
    /\ pc = "create_pr"
    /\ \/ /\ pr' = "open"
          /\ pr_body' = variance_list
          /\ IF coverage_run
             THEN pc' = "cleanup" /\ UNCHANGED <<err, exit_code>>
             ELSE Return
       \/ /\ UNCHANGED <<pr, pr_body>>
          /\ Return
    /\ UNCHANGED <<inputs, file, gen_next, join_next, th, variance_list, branch,
                   pushed, writes>>

\* run.py:270-275.
main_cleanup ==
    /\ pc = "cleanup"
    /\ pr' = "closed"
    /\ Return
    /\ UNCHANGED <<inputs, file, gen_next, join_next, th, variance_list, branch,
                   pushed, pr_body, writes>>

\* run.py:73-89.
start_thread ==
    \/ start_thread_spawn
    \/ start_thread_spawned
    \/ start_thread_join
    \/ start_thread_return

\* run.py:247-281.
main ==
    \/ main_get_auth
    \/ main_get_owner_repo
    \/ start_thread
    \/ main_decide
    \/ main_update
    \/ main_checkout
    \/ main_push
    \/ main_create_pr
    \/ main_cleanup

Next ==
    \/ main
    \/ \E i \in 1..N : get_rev_variances(i)

Spec == Init /\ [][Next]_vars

\* ------------------------------------------------------------ claims
\* start_thread has returned to main (run.py:254 is behind main).
StartThreadReturned ==
    \/ pc \in {"decide", "update", "checkout", "push", "create_pr", "cleanup"}
    \/ pc = "exit" /\ err \in {"none", "GitError", "GitCommandError"}

\* How often v occurs in the list q.
Count(q, v) == Cardinality({k \in 1..Len(q) : q[k] = v})

\* The identity of every reference the manifests hold, computed once.
identity_of ==
    [r \in {x.repo : x \in {y \in Items : item_has_keys(y)}} |-> owner_repo_of(r)]

\* The identity and the declared revision of manifest entry i.
entry_owner(i) == identity_of[manifest.repos[i].repo]
entry_rev(i) == manifest.repos[i].rev

\* The lookup of entry i decided to record a variance / has recorded it.
decided(i) == th[i].pc \in {"add_variance", "done"} /\ th[i].new_rev # <<>>
recorded(i) == th[i].pc = "done" /\ th[i].new_rev # <<>>

variance_of(i) ==
    [owner_repo |-> th[i].owner_repo, current_rev |-> th[i].current_rev,
     new_rev |-> th[i].new_rev]

\* C1: whatever the interleaving of the lookup threads, the shared
\* variance_list holds every variance as often as there are entries whose
\* lookup has recorded it and nothing else (no append is lost, none is
\* doubled), and once start_thread has returned every lookup that decided to
\* record a variance has recorded it.
C1_NoLostNoDuplicateVariance ==
    /\ \A v \in {variance_list[k] : k \in 1..Len(variance_list)}
                  \cup {variance_of(i) : i \in {j \in 1..N : decided(j)}} :
           Count(variance_list, v)
               = Cardinality({i \in 1..N : recorded(i) /\ variance_of(i) = v})
    /\ StartThreadReturned => \A i \in 1..N : decided(i) => recorded(i)

\* C1's case: start_thread returned with two variances that were appended
\* in the reverse of the manifest order.
C1_Witness ==
    /\ StartThreadReturned
    /\ N >= 2
    /\ Len(variance_list) = 2
    /\ recorded(1) /\ recorded(2)
    /\ variance_of(1) # variance_of(2)
    /\ variance_list[1] = variance_of(2)
    /\ variance_list[2] = variance_of(1)

\* C2: when start_thread has returned, every entry's lookup thread was
\* started and has terminated, by completing or by failing.
C2_JoinBarrier ==
    StartThreadReturned => \A i \in 1..N : th[i].pc \in Terminated

\* C2's case: start_thread returned although the first entry's lookup died
\* of an exception, and the second entry's lookup recorded its variance.
C2_Witness ==
    /\ StartThreadReturned
    /\ N >= 2
    /\ th[1].pc = "dead"
    /\ recorded(2)
    /\ Len(variance_list) = 1

\* The latest revision the oracle of the code resolves for an answer of the
\* forge: the latest release, else the first tag that passes the filter.
resolves(a) == a.exists /\ (a.has_release \/ first_tag(a.tags).found)
latest_of(a) == IF a.has_release THEN a.release ELSE first_tag(a.tags).name

\* C3: once the lookup of an entry whose latest revision is resolved has
\* ended without a forge error, the list holds no variance of that identity
\* and declared revision if the declared revision equals the latest one, and
\* otherwise holds the variance (identity, declared revision, latest
\* revision) and no other variance of that identity and declared revision;
\* every variance of the list is the identity and declared revision of some
\* entry with the latest revision resolved for it, and its two revisions
\* differ.
C3_VarianceIffRevisionsDiffer ==
    /\ \A i \in 1..N :
           (th[i].pc = "done" /\ resolves(forge[th[i].owner_repo])) =>
               LET L == latest_of(forge[entry_owner(i)])
                   mine == {k \in 1..Len(variance_list) :
                               /\ variance_list[k].owner_repo = entry_owner(i)
                               /\ variance_list[k].current_rev = entry_rev(i)}
               IN  IF entry_rev(i) = L
                   THEN mine = {}
                   ELSE /\ mine # {}
                        /\ \A k \in mine : variance_list[k].new_rev = L
    /\ \A k \in 1..Len(variance_list) :
           /\ variance_list[k].current_rev # variance_list[k].new_rev
           /\ \E i \in 1..N :
                  /\ item_has_keys(manifest.repos[i])
                  /\ variance_list[k].owner_repo = entry_owner(i)
                  /\ variance_list[k].current_rev = entry_rev(i)
                  /\ resolves(forge[entry_owner(i)])
                  /\ variance_list[k].new_rev = latest_of(forge[entry_owner(i)])

\* C3's case: one entry that declares the latest revision ended with no
\* variance, another that does not ended with its variance in the list.
C3_Witness ==
    /\ N >= 2
    /\ th[1].pc = "done" /\ th[2].pc = "done"
    /\ resolves(forge[th[1].owner_repo]) /\ resolves(forge[th[2].owner_repo])
    /\ entry_rev(1) = latest_of(forge[entry_owner(1)])
    /\ entry_rev(2) # latest_of(forge[entry_owner(2)])
    /\ variance_list = <<[owner_repo |-> entry_owner(2), current_rev |-> entry_rev(2),
                          new_rev |-> latest_of(forge[entry_owner(2)])]>>

\* The pre-release markers the tag filter is meant to exclude.
Markers ==
    { <<"a","l","p","h","a">>, <<"b","e","t","a">>,
      <<"p","r","e","r","e","l","e","a","s","e">>,
      <<"p","r","e","-","r","e","l","e","a","s","e">>, <<"r","c">> }

has_marker(name) == \E m \in Markers : str_in(m, name)

\* The first tag in forge order whose name contains none of the markers.
RECURSIVE first_stable_tag(_)
first_stable_tag(tags) ==
    IF Len(tags) = 0 THEN [found |-> FALSE, name |-> <<>>]
    ELSE IF ~has_marker(Head(tags)) THEN [found |-> TRUE, name |-> Head(tags)]
    ELSE first_stable_tag(Tail(tags))

\* The lookup of entry i went through the tag fallback and selected a tag.
selected_a_tag(i) ==
    /\ th[i].pc \in {"add_variance", "done"}
    /\ th[i].exc = "none"
    /\ forge[th[i].owner_repo].exists
    /\ ~forge[th[i].owner_repo].has_release

\* C4: a lookup that fell back to the tags selected the first tag in forge
\* order whose name contains no pre-release marker: that tag exists, and the
\* lookup recorded it as the new revision unless the entry declares it.
C4_TagFallbackSkipsPrereleases ==
    \A i \in 1..N :
        selected_a_tag(i) =>
            LET want == first_stable_tag(forge[th[i].owner_repo].tags)
            IN  /\ want.found
                /\ th[i].new_rev
                       = (IF th[i].current_rev = want.name THEN <<>> ELSE want.name)

\* A lookup of entry i that met no forge error.
no_forge_error(i) == th[i].pc \in Terminated /\ th[i].exc # "GithubException"

\* The list holds no variance of identity o.
no_variance_for(o) == \A k \in 1..Len(variance_list) : variance_list[k].owner_repo # o

\* The credential is valid, the manifest is a parseable file with the repos
\* key, and every item of it has its reference and its revision.
InputsValid ==
    /\ gh_token = "valid"
    /\ read_result(manifest) = "ok"
    /\ \A i \in 1..N : item_has_keys(manifest.repos[i])

\* The entry's repository does not exist upstream and its lookup has ended.
skipped_not_found(i) == no_forge_error(i) /\ ~forge[th[i].owner_repo].exists

\* C5: the lookup of an entry whose repository is not found upstream returns
\* normally from the repository call without recording anything, no variance of that
\* identity is in the list, and a run that has such an entry, valid inputs
\* and no git failure in publishing exits with code 0.
C5_RepoNotFoundSkipped ==
    /\ \A i \in 1..N :
           skipped_not_found(i) =>
               /\ th[i].pc = "done"
               /\ th[i].exc = "none"
               /\ th[i].new_rev = <<>>
               /\ no_variance_for(th[i].owner_repo)
    /\ ( /\ pc = "exit"
         /\ InputsValid
         /\ err \notin {"GitError", "GitCommandError"}
         /\ \E i \in 1..N : skipped_not_found(i) ) => exit_code = 0

\* C5's case: the run exited with code 0, the first entry's repository was
\* not found and the second entry's variance was recorded.
C5_Witness ==
    /\ pc = "exit" /\ exit_code = 0
    /\ N >= 2
    /\ skipped_not_found(1)
    /\ recorded(2)
    /\ variance_list = <<variance_of(2)>>

\* The lookup of entry i fell back to the tags and the repository has no
\* qualifying tag: its tag list is empty or every tag carries a marker.
no_qualifying_tag(i) ==
    /\ th[i].pc \in {"add_variance", "done", "dead"}
    /\ th[i].exc # "GithubException"
    /\ forge[th[i].owner_repo].exists
    /\ ~forge[th[i].owner_repo].has_release
    /\ \A k \in 1..Len(forge[th[i].owner_repo].tags) :
           has_marker(forge[th[i].owner_repo].tags[k])

\* C6: a lookup that finds no release and no qualifying tag records nothing:
\* it selected no new revision, no variance of that identity is in the list,
\* and a run with valid inputs and no git failure in publishing exits with
\* code 0.
C6_NoQualifyingTagSkipped ==
    \A i \in 1..N :
        no_qualifying_tag(i) =>
            /\ th[i].new_rev = <<>>
            /\ no_variance_for(th[i].owner_repo)
            /\ (pc = "exit" /\ InputsValid /\ err \notin {"GitError", "GitCommandError"})
                   => exit_code = 0

\* C7: in dry-run mode the manifest file is never written, no branch is
\* created, nothing is pushed and no pull request is opened, and a run that
\* got its variance set from start_thread exits with code 0.
C7_DryRunTouchesNothing ==
    dry_run =>
        /\ writes = 0
        /\ file = manifest
        /\ ~branch
        /\ ~pushed
        /\ pr = "none"
        /\ pc \notin {"update", "checkout", "push", "create_pr", "cleanup"}
        /\ (pc = "exit" /\ StartThreadReturned) => exit_code = 0

\* C7's case: a dry run that found a variance has exited.
C7_Witness ==
    /\ dry_run
    /\ pc = "exit"
    /\ exit_code = 0
    /\ Len(variance_list) > 0
    /\ file = manifest

\* C8: after update_pre_commit_config, an entry's revision differs from the
\* declared one only if the list holds a variance of that very entry (its
\* identity, its declared revision), and then it is that variance's latest
\* revision.
C8_OnlyTargetedRevisionsChange ==
    writes > 0 =>
        \A i \in 1..N :
            file.repos[i].rev # manifest.repos[i].rev =>
                \E k \in 1..Len(variance_list) :
                    /\ variance_list[k].owner_repo = entry_owner(i)
                    /\ variance_list[k].current_rev = entry_rev(i)
                    /\ variance_list[k].new_rev = file.repos[i].rev

\* ------------------------------------------------------------ the writer alone
\* The variances update_pre_commit_config may be handed.
Variances ==
    [owner_repo : Identities, current_rev : {S_v1, S_v1_9_0},
     new_rev : {S_v2, S_v2_0_0_rc1}]

\* The repos lists it may find in the file: every item has both keys.
WriterDocs ==
    {m \in SeqsUpTo({x \in Items : item_has_keys(x)}, MaxEntries) : Len(m) >= 1}

\* update_pre_commit_config called on any document with any variance list,
\* the empty one included (main calls it only with a non-empty one).
WriterInit ==
    \E repos \in WriterDocs, vl \in SeqsUpTo(Variances, MaxVariances) :
        /\ gh_token = "valid"
        /\ coverage_run = FALSE
        /\ dry_run = FALSE
        /\ open_pr = FALSE
        /\ manifest = ManifestFile(repos)
        /\ file = ManifestFile(repos)
        /\ forge = [o \in Identities |-> NoAnswer]
        /\ pc = "update"
        /\ err = "none"
        /\ exit_code = -1
        /\ gen_next = 1
        /\ join_next = 1
        /\ th = [i \in 1..Len(repos) |-> NotStarted]
        /\ variance_list = vl
        /\ branch = FALSE
        /\ pushed = FALSE
        /\ pr = "none"
        /\ pr_body = <<>>
        /\ writes = 0

WriterNext == main_update

WriterSpec == WriterInit /\ [][WriterNext]_vars

\* C9: update_pre_commit_config leaves the number of entries, their order,
\* their keys and every reference field as they were, for any variance list,
\* and with the empty variance list it leaves every revision as it was: the
\* document it dumps is the document it loaded.
C9_WriterKeepsReferencesAndEntries ==
    /\ file.exists = manifest.exists
    /\ file.parses = manifest.parses
    /\ file.has_repos = manifest.has_repos
    /\ Len(file.repos) = Len(manifest.repos)
    /\ \A i \in 1..Len(manifest.repos) :
           /\ DOMAIN file.repos[i] = DOMAIN manifest.repos[i]
           /\ "repo" \in DOMAIN manifest.repos[i]
                  => file.repos[i].repo = manifest.repos[i].repo
    /\ variance_list = <<>> => file.repos = manifest.repos

\* C9's case: the file was rewritten from an empty variance list.
C9_Witness ==
    /\ writes = 1
    /\ variance_list = <<>>
    /\ file.layout = "dumped"
    /\ file.repos = manifest.repos

\* The orderings of the list q.
Orderings(q) ==
    {[i \in 1..Len(q) |-> q[p[i]]] :
        p \in {f \in [1..Len(q) -> 1..Len(q)] :
                  \A a, b \in 1..Len(q) : f[a] = f[b] => a = b}}

\* C10: the revisions update_pre_commit_config wrote are the ones it would
\* have written from any other ordering of the same variances.
C10_WriterOrderIndependent ==
    writes > 0 =>
        \A q \in Orderings(variance_list) :
            update_revs(manifest.repos, q) = file.repos

\* ------------------------------------------------------------ the resolver alone
S_o_n == <<"o","/","n">>
S_https_x_o_n_git == <<"h","t","t","p","s",":","/","/","x","/","o","/","n",".","g","i","t">>
S_git_x_o_n_git == <<"g","i","t","@","x",":","o","/","n",".","g","i","t">>
S_https_x_o_n_github == <<"h","t","t","p","s",":","/","/","x","/","o","/","n",".","g","i","t","h","u","b">>

\* The references a manifest may hold: URL-style with and without the .git
\* suffix, SSH-style, scheme-less, and one whose name has .git inside it.
References ==
    { S_https_x_o_n, S_https_x_o_nn, S_https_x_o_n_git, S_git_x_o_n_git, S_o_n,
      S_https_x_o_n_github }

ResolverDocs ==
    {m \in SeqsUpTo({[repo |-> r, rev |-> S_v1] : r \in References}, MaxEntries) :
        Len(m) >= 1}

\* The generator of get_owner_repo iterated by start_thread's first loop, on
\* any document of these references; the threads are started and not run.
ResolverInit ==
    \E repos \in ResolverDocs :
        /\ gh_token = "valid"
        /\ coverage_run = FALSE
        /\ dry_run = TRUE
        /\ open_pr = FALSE
        /\ manifest = ManifestFile(repos)
        /\ file = ManifestFile(repos)
        /\ forge = [o \in Identities |-> NoAnswer]
        /\ pc = "start_thread"
        /\ err = "none"
        /\ exit_code = -1
        /\ gen_next = 1
        /\ join_next = 1
        /\ th = [i \in 1..Len(repos) |-> NotStarted]
        /\ variance_list = <<>>
        /\ branch = FALSE
        /\ pushed = FALSE
        /\ pr = "none"
        /\ pr_body = <<>>
        /\ writes = 0

ResolverNext ==
    \/ start_thread_spawn
    \/ start_thread_spawned

ResolverSpec == ResolverInit /\ [][ResolverNext]_vars

\* The path separators of a reference: / in every style, : before the path
\* of an SSH-style one.
is_sep(c) == c \in {"/", ":"}

last_sep(s) ==
    LET hits == {i \in 1..Len(s) : is_sep(s[i])}
    IN  IF hits = {} THEN 0 ELSE CHOOSE i \in hits : \A j \in hits : j <= i

last_segment(s) == SubSeq(s, last_sep(s) + 1, Len(s))

strip_trailing_dotgit(s) ==
    IF Len(s) >= Len(S_dotgit) /\ SubSeq(s, Len(s) - Len(S_dotgit) + 1, Len(s)) = S_dotgit
    THEN SubSeq(s, 1, Len(s) - Len(S_dotgit))
    ELSE s

\* The trailing two path segments of a reference, less a trailing .git.
trailing_identity(ref) ==
    last_segment(SubSeq(ref, 1, last_sep(ref) - 1))
        \o <<S_slash>> \o strip_trailing_dotgit(last_segment(ref))

\* C11: the identity the generator yields for an entry is the trailing two
\* path segments of its reference with only a trailing .git removed, so the
\* references https://x/o/n.git, git@x:o/n.git and o/n all yield o/n, and
\* resolving the identity again yields the identity.
C11_IdentityIsTrailingTwoSegments ==
    \A i \in 1..N :
        th[i].pc # "unstarted" =>
            /\ th[i].owner_repo = trailing_identity(manifest.repos[i].repo)
            /\ manifest.repos[i].repo \in {S_https_x_o_n_git, S_git_x_o_n_git, S_o_n}
                   => th[i].owner_repo = S_o_n
            /\ owner_repo_of(th[i].owner_repo) = th[i].owner_repo

\* ------------------------------------------------------------ exits
\* The credential is missing or invalid, the manifest file does not exist,
\* does not parse, or lacks the top-level repos key.
FatalInput ==
    \/ gh_token \in {"missing", "invalid"}
    \/ ~manifest.exists
    \/ ~manifest.parses
    \/ ~manifest.has_repos

\* C12: with a missing or invalid credential, a missing manifest file or a
\* malformed one (unparseable, or without the repos key), main goes from
\* get_auth and get_owner_repo straight to its exit, the exit code is not 0,
\* the file is not written, no lookup is started and no branch, push or pull
\* request is made; a run that ends without an exception, and a run whose
\* lookups returned no variance, exits with code 0.
C12_FatalInputsExitNonZero ==
    /\ FatalInput =>
           /\ pc \in {"get_auth", "get_owner_repo", "exit"}
           /\ pc = "exit" => exit_code # 0 /\ err # "none"
           /\ writes = 0
           /\ file = manifest
           /\ \A i \in 1..N : th[i].pc = "unstarted"
           /\ ~branch /\ ~pushed /\ pr = "none"
    /\ (pc = "exit" /\ err = "none") => exit_code = 0
    /\ (pc = "exit" /\ StartThreadReturned /\ variance_list = <<>>) => exit_code = 0

\* C12's case: a parseable manifest without the repos key made main exit
\* with a non-zero code and the file untouched.
C12_Witness ==
    /\ pc = "exit"
    /\ exit_code = 1
    /\ gh_token = "valid"
    /\ manifest.exists /\ manifest.parses /\ ~manifest.has_repos
    /\ err = "KeyError"
    /\ writes = 0

\* A run that was to publish (dry-run off, open-pr on, a non-empty variance
\* list, the branch checked out) has exited after a failed push or a failed
\* pull request creation.
publish_failed ==
    /\ pc = "exit"
    /\ ~dry_run /\ open_pr
    /\ Len(variance_list) > 0
    /\ branch
    /\ (~pushed \/ pr = "none")

\* C13: a run that was to publish and whose push failed, or whose pull
\* request creation failed, still runs to completion: it exits with code 0.
C13_PublisherFailuresExitZero ==
    publish_failed => exit_code = 0

\* An exception left some component uncaught: main's own steps (err), or
\* the lookup of an entry (a forge error other than the two not-found cases).
unhandled_exception ==
    \/ err # "none"
    \/ \E i \in 1..N : th[i].pc = "dead" /\ th[i].exc = "GithubException"

\* C14: a run in which an exception went unhandled in any component, an
\* unexpected forge error inside a lookup included, exits with a code other
\* than 0.
C14_UnhandledExceptionExitsNonZero ==
    (pc = "exit" /\ unhandled_exception) => exit_code # 0

\* ------------------------------------------------------------ file access
\* The lookup thread of entry i was started and has not terminated.
running(i) == th[i].pc \in {"get_repo", "get_latest_release", "get_tags", "add_variance"}

\* main is at a step that opens the manifest file: get_owner_repo reads it
\* (run.py:63-64), update_pre_commit_config reads and writes it (148-157).
at_file_access == pc \in {"get_owner_repo", "update"}

\* C15: the manifest file is read by get_owner_repo while no lookup thread
\* has been started, and is written at most once, by a step taken when every
\* entry's thread has been joined and has terminated; main is at no step
\* that opens the file while a lookup thread runs; and a step of a running
\* lookup thread changes nothing but that thread's own record and the
\* variance list.
C15_FileAccessOutsideLookups ==
    /\ [](/\ writes <= 1
          /\ pc \in {"get_auth", "get_owner_repo"} => \A i \in 1..N : th[i].pc = "unstarted"
          /\ at_file_access => \A i \in 1..N : ~running(i)
          /\ writes > 0 => \A i \in 1..N : th[i].pc \in Terminated)
    /\ [][/\ (file' # file \/ writes' # writes) =>
                 /\ pc = "update"
                 /\ writes = 0 /\ writes' = 1
                 /\ join_next = N + 1
                 /\ \A i \in 1..N : th[i].pc \in Terminated
          /\ \A i \in 1..N :
                 (running(i) /\ th'[i] # th[i]) =>
                     /\ \A j \in (1..N) \ {i} : th'[j] = th[j]
                     /\ UNCHANGED <<inputs, file, pc, err, exit_code, gen_next,
                                    join_next, publisher, writes>>
         ]_vars

\* C15's case: the file was rewritten after two lookups ended, one of them
\* by dying of a forge error.
C15_Witness ==
    /\ writes = 1
    /\ N >= 2
    /\ file.repos # manifest.repos
    /\ th[1].pc = "dead"
    /\ recorded(2)

\* ------------------------------------------------------------ remote calls
\* The remote calls of a lookup, in the order of the code: gh.get_repo
\* (run.py:104), repo.get_latest_release (106), repo.get_tags (114).  The
\* rank of a position is the number of calls issued once the thread's step
\* from that position is taken.
call_rank(p) ==
    CASE p = "unstarted" -> 0
      [] p = "get_repo" -> 1
      [] p = "get_latest_release" -> 2
      [] p = "get_tags" -> 3
      [] OTHER -> 4

at_call(p) == p \in {"get_repo", "get_latest_release", "get_tags"}

\* This step is the lookup thread of entry i issuing the call it is at,
\* whatever the call's outcome.
issues_call(i) == at_call(th[i].pc) /\ th'[i] # th[i]

\* Each call is attempted once: the step that issues it leaves its position
\* for a later one, and no step of the thread goes back.
no_retry(i) ==
    /\ issues_call(i) => call_rank(th'[i].pc) > call_rank(th[i].pc)
    /\ call_rank(th'[i].pc) >= call_rank(th[i].pc)

\* The thread comes to the tag-list call only from the latest-release call
\* of a repository that has no release.
tags_only_after_no_release(i) ==
    (th'[i].pc = "get_tags" /\ th[i].pc # "get_tags") =>
        /\ th[i].pc = "get_latest_release"
        /\ forge[th[i].owner_repo].exists
        /\ ~forge[th[i].owner_repo].has_release

\* C16 as stated: no call a lookup issues is its third or later, each call
\* is attempted once, and the tag-list call is issued only after the
\* latest-release call reported that there is no release.
C16_AtMostTwoCalls ==
    [][\A i \in 1..N :
           /\ issues_call(i) => call_rank(th[i].pc) <= 2
           /\ no_retry(i)
           /\ tags_only_after_no_release(i)]_vars

\* C16 amended: a lookup issues at most three calls, gh.get_repo first, then
\* repo.get_latest_release only for a repository that exists, then
\* repo.get_tags only after the latest-release call reported no release;
\* each call is attempted once.
C16_AtMostThreeCallsOnceEach ==
    [][\A i \in 1..N :
           /\ issues_call(i) => call_rank(th[i].pc) <= 3
           /\ no_retry(i)
           /\ (th'[i].pc = "get_latest_release" /\ th[i].pc # "get_latest_release") =>
                  th[i].pc = "get_repo" /\ forge[th[i].owner_repo].exists
           /\ tags_only_after_no_release(i)]_vars

\* C16's case: the first entry's lookup ended after one call (repository
\* not found), the second after the tag-list call, its third.
C16_Witness ==
    /\ N >= 2
    /\ skipped_not_found(1)
    /\ th[2].pc = "done" /\ th[2].exc = "none"
    /\ forge[th[2].owner_repo].exists
    /\ ~forge[th[2].owner_repo].has_release
    /\ first_tag(forge[th[2].owner_repo].tags).found

\* ------------------------------------------------------------ convergence
\* The variances a reconciliation of the repos list against the forge f
\* yields when every lookup gets its answers: one for each entry whose
\* latest revision is resolved and differs from the declared one.
reconcile(repos, f) ==
    { [owner_repo |-> identity_of[repos[i].repo], current_rev |-> repos[i].rev,
       new_rev |-> latest_of(f[identity_of[repos[i].repo]])] :
        i \in {j \in 1..Len(repos) :
                  /\ item_has_keys(repos[j])
                  /\ resolves(f[identity_of[repos[j].repo]])
                  /\ rev_differs(repos[j].rev,
                                 latest_of(f[identity_of[repos[j].repo]]))} }

\* C17: once update_pre_commit_config has applied the variance list of a run
\* in which every lookup got its answers from the forge, a reconciliation of
\* the rewritten manifest against the same answers yields no variance.
C17_ReconciliationConverges ==
    (writes > 0 /\ \A i \in 1..N : no_forge_error(i)) =>
        reconcile(file.repos, forge) = {}

\* ------------------------------------------------------------ publishing
\* The manifest file holds the dump of the document with the variance list
\* applied to it.
rewritten ==
    /\ writes = 1
    /\ file.layout = "dumped"
    /\ file.repos = update_revs(manifest.repos, variance_list)

\* C18: a pull request exists only in a run with dry-run off, open-pr on and
\* a non-empty variance list, in which the manifest was rewritten, a branch
\* checked out and the commit pushed; each of these steps is taken only
\* after the one before it; the body of the pull request is the variance
\* list that was applied to the manifest; and the pull request is closed
\* only in a coverage run, after it was created.
C18_PublishPipelineOrdered ==
    /\ [](/\ branch => rewritten /\ ~dry_run /\ open_pr /\ Len(variance_list) > 0
          /\ pushed => branch
          /\ pr # "none" => pushed /\ pr_body = variance_list
          /\ pr = "none" => pr_body = <<>>
          /\ pc = "cleanup" => pr = "open" /\ coverage_run
          /\ pr = "closed" => coverage_run)
    /\ [][/\ (branch' /\ ~branch) => rewritten /\ ~pushed /\ pr = "none"
          /\ (pushed' /\ ~pushed) => branch /\ pr = "none"
          /\ (pr' # pr /\ pr = "none") => pushed /\ pr' = "open"
          /\ (pr' # pr /\ pr # "none") => pr = "open" /\ pr' = "closed"]_vars

\* C18's case: a coverage run published two variances and then closed the
\* pull request.
C18_Witness ==
    /\ pc = "exit"
    /\ pr = "closed"
    /\ Len(pr_body) = 2
    /\ rewritten
    /\ file.repos # manifest.repos

\* ------------------------------------------------------------ leaving start_thread
\* main is inside start_thread or has not come to it yet.
start_thread_pending == pc \in {"get_auth", "get_owner_repo", "start_thread", "join"}

\* C19: once start_thread has been left, by return or by exception, no
\* lookup thread is running, and when main exits on a manifest item that
\* lacks its reference or revision key no lookup thread was ever started.
C19_NoLookupOutlivesStartThread ==
    /\ ~start_thread_pending => \A i \in 1..N : ~running(i)
    /\ (pc = "exit" /\ err = "KeyError" /\ manifest.has_repos) =>
           \A i \in 1..N : th[i].pc = "unstarted"

====
